---- MODULE Spec2Model ----
(***************************************************************************)
(* Model of src/MatlabMCP-server-with-client/main.py: the two MCP tools    *)
(* runMatlabCode and getVariable, the helper matlab_to_python, the shared  *)
(* MATLAB engine session they call, and the temporary-file directory.      *)
(*                                                                         *)
(* Each tool is an asyncio coroutine.  The code between two awaits runs    *)
(* without interleaving on the event loop, so one action models one such   *)
(* segment; a request waiting on asyncio.to_thread sits in a pc value of   *)
(* its own while the other requests take steps.                            *)
(***************************************************************************)
EXTENDS Naturals, Sequences, FiniteSets, TLC

\* ------------------------------------------------------------------ bounds
NumReqs == 2        \* request slots handled concurrently by the event loop

\* Names the temporary directory can hand out: as many as there can be calls
\* in progress; a file left behind takes one of them for good.
NumFiles == NumReqs

Reqs == 1..NumReqs

\* ------------------------------------------------------------ value model
None == "None"      \* Python's None, where a string or None is stored

\* Code strings a caller submits.  LoneSurrogate stands for a str holding a
\* lone surrogate code point, which the utf-8 codec cannot encode.
LoneSurrogate == "s = '<U+D800>'"
Codes == {"x = 5;", "1 + 1", LoneSurrogate}

\* main.py:107  encoding='utf-8': tmp.write(code) encodes the text.
Utf8Encodable(c) == c # LoneSurrogate

\* Transcripts eng.evalc can return.
Transcripts == {"ans = 2", ""}

\* Names tempfile.NamedTemporaryFile(suffix=".m") can generate.
FileName(i) == "tmp" \o ToString(i) \o ".m"
FileNames == {FileName(i) : i \in 1..NumFiles}

\* A directory entry: the request whose call in progress created the file,
\* and what the file holds.  A file that outlives its call is read by nothing
\* any more: its entry is kept as LeftOver, whatever it holds.
NoFile == [owner |-> 0, content |-> "<absent>"]
LeftOver == [owner |-> 0, content |-> "<left over>"]

\* Exception classes.  str(e) is modelled by the class name.
Str(exc) == exc

\* IOError is an alias of OSError (main.py:143 catches the whole family).
IsOSError(exc) == exc \in {"OSError", "FileExistsError"}

\* Exceptions a call into the engine can raise in runMatlabCode.
SessionFaults == {"MatlabExecutionError", "EngineError", "RuntimeError"}

\* Exceptions eng.workspace can raise in getVariable.  MatlabExecutionError
\* is left out: whether it derives from EngineError is decided by the
\* matlab package, which main.py only imports.
WorkspaceFaults == {"EngineError", "RuntimeError"}

\* Arguments a caller can pass as variable_name: Python values with their
\* type and text.
NameInputs ==
    {[type |-> "str", text |-> "x"], [type |-> "str", text |-> ""],
     [type |-> "int", text |-> "5"], [type |-> "NoneType", text |-> "None"]}

NoName == [type |-> "NoneType", text |-> "<unset>"]

\* Python truth value of such an argument.
Truthy(n) ==
    CASE n.type = "str" -> n.text # ""
      [] n.type = "int" -> n.text # "0"
      [] OTHER -> FALSE

\* A validation without the isinstance test.
InvalidNameEmptyOnly(n) == ~Truthy(n)

\* main.py:185  the validation of variable_name.
InvalidName(n) == ~Truthy(n) \/ n.type # "str"

\* -------------------------------------------------------- matlab_to_python
\* Values the engine hands back (NativeValue): Python primitives, matlab
\* arrays as their rows, char data, and objects of any other class, whose
\* str() may itself raise.  The entries of an array with is_complex are the
\* real parts of elements whose imaginary part is not zero.
Primitive(cls, v) == [cls |-> cls, v |-> v]
MlArray(cls, rows, cx) == [cls |-> cls, rows |-> rows, is_complex |-> cx]
Other(cls, text, raises) == [cls |-> cls, v |-> text, strRaises |-> raises]

NativeValues ==
    {Primitive("float", 5), Primitive("str", "abc"), Primitive("NoneType", None),
     MlArray("matlab.double", <<<<7>>>>, FALSE),
     MlArray("matlab.double", <<<<1, 2>>>>, FALSE),
     MlArray("matlab.double", <<<<1>>, <<2>>>>, FALSE),
     MlArray("matlab.double", <<<<1, 2>>, <<3, 4>>>>, FALSE),
     MlArray("matlab.double", <<<<1, 2, 3>>, <<4, 5, 6>>>>, FALSE),
     MlArray("matlab.int32", <<<<7>>>>, FALSE),
     MlArray("matlab.int32", <<<<1, 2>>, <<3, 4>>>>, FALSE),
     MlArray("matlab.double", <<<<7>>>>, TRUE),
     MlArray("matlab.double", <<<<1, 2>>>>, TRUE),
     MlArray("matlab.logical", <<<<TRUE>>>>, FALSE),
     MlArray("matlab.logical", <<<<TRUE, FALSE>>>>, FALSE),
     Primitive("matlab.char", "hi"),
     Other("dict", "{'a': 1.0}", FALSE),
     Other("matlab.object", "", TRUE)}

\* Values of the JSON-bound side: scalars and (nested) lists, with the Python
\* type of the scalars they hold.
PyScalar(type, v) == [type |-> type, v |-> v]
PyList(elem, items) == [type |-> "list", elem |-> elem, v |-> items]

NumRows(a) == Len(a.rows)
NumCols(a) == IF Len(a.rows) = 0 THEN 0 ELSE Len(a.rows[1])

\* np.array(data).squeeze().tolist() for an array that squeeze leaves with
\* one dimension or more: dimensions of size 1 are dropped.
SqueezedList(a, elem) ==
    IF NumRows(a) = 1 THEN PyList(elem, a.rows[1])
    ELSE IF NumCols(a) = 1 THEN PyList(elem, [i \in 1..NumRows(a) |-> a.rows[i][1]])
    ELSE PyList(elem, a.rows)

\* main.py:60/64  ndim of the squeezed array is 0.
ZeroDim(a) == NumRows(a) = 1 /\ NumCols(a) = 1

ElemType(a, real) == IF a.is_complex THEN "complex" ELSE real

\* What main.py:53-75 takes from the packages it imports, which are not part
\* of the sources and differ between installations:
\*   hasChar      whether the matlab package has an attribute char
\*                (main.py:67); the MATLAB Engine API documents the array
\*                classes double, single, int8..uint64 and logical, and object;
\*   complexCast  what float() does on a 0-dimensional complex array
\*                (main.py:61): raise TypeError, or return the real part.
Builds == [hasChar : BOOLEAN, complexCast : {"TypeError", "discard_imag"}]

\* Values an installation can hand back: an instance of matlab.char needs the
\* class to exist.
Produces(build, data) == data.cls = "matlab.char" => build.hasChar

PrimitiveClasses == {"str", "int", "float", "bool", "NoneType"}

\* main.py:53-75  the exception matlab_to_python raises on data, "none" when
\* it returns.  The isinstance tests run in order, so matlab.char is looked
\* up for every value that is no primitive, matlab.double or matlab.logical.
MarshalFault(data, build) ==
    IF data.cls \in PrimitiveClasses
    THEN "none"
    ELSE IF data.cls = "matlab.double"
    THEN IF ZeroDim(data) /\ data.is_complex /\ build.complexCast = "TypeError"
         THEN "TypeError" ELSE "none"
    ELSE IF data.cls = "matlab.logical"
    THEN "none"
    ELSE IF ~build.hasChar
    THEN "AttributeError"
    ELSE "none"

\* The ways matlab_to_python can end on data, over the installations that can
\* produce data.
MarshalOutcomes(data) ==
    {MarshalFault(data, build) : build \in {b \in Builds : Produces(b, data)}}

\* main.py:72-75  str(data) of a value that reaches the else branch, and
\* whether it raises.
StrRaises(data) == "strRaises" \in DOMAIN data /\ data.strRaises
StrOf(data) ==
    IF "rows" \in DOMAIN data
    THEN data.cls \o "(" \o ToString(data.rows) \o ")"
    ELSE data.v

\* main.py:75
Sentinel(data) == "Unserializable MATLAB Type: <class '" \o data.cls \o "'>"

\* main.py:53-75  the value matlab_to_python returns.
matlab_to_python(data) ==
    IF data.cls \in PrimitiveClasses
    THEN PyScalar(data.cls, data.v)
    ELSE IF data.cls = "matlab.double"
    THEN IF ZeroDim(data) THEN PyScalar("float", data.rows[1][1])
         ELSE SqueezedList(data, ElemType(data, "float"))
    ELSE IF data.cls = "matlab.logical"
    THEN IF ZeroDim(data) THEN PyScalar("bool", data.rows[1][1])
         ELSE SqueezedList(data, ElemType(data, "bool"))
    ELSE IF data.cls = "matlab.char"
    THEN PyScalar("str", data.v)
    ELSE IF ~StrRaises(data)
    THEN PyScalar("str", StrOf(data))
    ELSE PyScalar("str", Sentinel(data))

\* main.py:202  json.dumps accepts numbers, booleans, strings, None and lists
\* of them; a complex number is not JSON serializable.
Serializable(py) == ~(py.type = "list" /\ py.elem = "complex")

\* main.py:202  what json.dumps raises on py, "none" when it returns: TypeError
\* for a value it cannot serialize, else what the environment makes it raise
\* (MemoryError on a value too large to encode).
EncoderFaults == {"none", "MemoryError"}
DumpsFault(py, env) == IF ~Serializable(py) THEN "TypeError" ELSE env

\* ------------------------------------------------------ response shaping
\* main.py:187
InvalidNameResponse ==
    [status |-> "error", error_type |-> "ValueError",
     message |-> "Invalid variable_name: must be a non-empty string."]

\* main.py:204
GetSuccess(n, py) == [status |-> "success", variable |-> n.text, value |-> py]

\* main.py:205-210  the handler of the inner try around json.dumps.
UnserializableResponse(n, data) ==
    [status |-> "error", error_type |-> "TypeError",
     message |-> "Value for variable '" \o n.text
                 \o "' could not be JSON serialized after conversion. Original MATLAB type: "
                 \o data.cls]

\* main.py:205  the except clause of the inner try.
CaughtAsUnserializable(exc) == exc = "TypeError"

\* main.py:212-220  handlers of the outer try of getVariable.
GetVarHandler(exc) ==
    IF exc = "KeyError"
    THEN [status |-> "error", error_type |-> "KeyError", message |-> Str(exc)]
    ELSE IF exc = "EngineError"
    THEN [status |-> "error", error_type |-> "EngineError",
          message |-> "MATLAB Engine error: " \o Str(exc)]
    ELSE [status |-> "error", error_type |-> exc,
          message |-> "An unexpected error occurred: " \o Str(exc)]

\* main.py:114
RunSuccessViaFile(path) ==
    [status |-> "success",
     output |-> "Code executed successfully via temporary file (" \o path \o ")."]

\* A fallback that reports a fixed text and drops what eng.evalc returned.
RunSuccessEvalcFixedText(result) ==
    [status |-> "success", output |-> "Code executed successfully using eng.evalc() fallback."]

\* main.py:124
RunSuccessEvalc(result) == [status |-> "success", output |-> result]

\* A fallback clause that also takes engine communication errors.
FallsBackOnEngineError(exc) == exc \in {"MatlabExecutionError", "EngineError"}

\* main.py:116  the except clause that selects the evalc fallback.
FallsBack(exc) == exc = "MatlabExecutionError"

\* Handlers of the fallback that answer like the outer ones, naming no stage.
EvalcHandlerNoStage(exc) ==
    [status |-> "error", error_type |-> exc,
     message |-> "An unexpected error occurred: " \o Str(exc)]

\* main.py:125-138  handlers of the inner try around eng.evalc.
EvalcHandler(exc) ==
    IF exc = "MatlabExecutionError"
    THEN [status |-> "error", error_type |-> "MatlabExecutionError",
          stage |-> "evalc_fallback",
          message |-> "MATLAB execution failed (tried temp file then evalc): " \o Str(exc)]
    ELSE [status |-> "error", error_type |-> exc,
          stage |-> "evalc_fallback",
          message |-> "Unexpected error during eng.evalc() fallback: " \o Str(exc)]

\* An exception no handler takes leaves the tool function.
Propagates(exc) == [status |-> "raised", exception |-> exc]

\* The outer handlers without the final except Exception clause.
RunOuterHandlerNoCatchAll(exc) ==
    IF exc = "EngineError"
    THEN [status |-> "error", error_type |-> "EngineError",
          message |-> "MATLAB Engine error: " \o Str(exc)]
    ELSE IF IsOSError(exc)
    THEN [status |-> "error", error_type |-> "IOError",
          message |-> "File operation error: " \o Str(exc)]
    ELSE Propagates(exc)

\* main.py:140-148  handlers of the outer try, tried in order after
\* MatlabExecutionError; the last clause takes every Exception.
RunOuterHandler(exc) ==
    IF exc = "EngineError"
    THEN [status |-> "error", error_type |-> "EngineError",
          message |-> "MATLAB Engine error: " \o Str(exc)]
    ELSE IF IsOSError(exc)
    THEN [status |-> "error", error_type |-> "IOError",
          message |-> "File operation error: " \o Str(exc)]
    ELSE [status |-> "error", error_type |-> exc,
          message |-> "An unexpected error occurred: " \o Str(exc)]

\* main.py:149-156  finally: delete the file named by temp_file_path when
\* it is set and exists; an OSError of os.remove is logged and swallowed.
Cleanup(path, files, removeRaises) ==
    IF path # None /\ files[path] # NoFile /\ ~removeRaises
    THEN [files EXCEPT ![path] = NoFile]
    ELSE files

\* ------------------------------------------------------------------ state
\* What one call has done so far (history, read by the properties only).
NoNative == [cls |-> "<none>"]
NoPython == [type |-> "<none>"]

EmptyHist ==
    [created |-> None,          \* name of the file this call created
     fileFault |-> "none",      \* what the file tier did: "returned" or the class raised
     runCalls |-> 0,            \* eng.run calls issued
     runArg |-> None,           \* the path passed to eng.run
     evalcCalls |-> 0,          \* eng.evalc calls issued
     evalcResult |-> "none",    \* "returned" or the class raised
     transcript |-> None,       \* the text eng.evalc returned
     removeFailed |-> FALSE,    \* os.remove raised in the finally block
     containsCalls |-> 0,       \* "in eng.workspace" checks issued
     containsResult |-> "none", \* "present", "absent" or the class raised
     getCalls |-> 0,            \* eng.workspace[...] reads issued
     getResult |-> "none",      \* "returned" or the class raised
     marshalCalls |-> 0,        \* matlab_to_python applications
     marshalFault |-> "none",   \* the class matlab_to_python raised
     dumpsCalls |-> 0,          \* json.dumps attempts
     dumpsFault |-> "none",     \* the class json.dumps raised
     native |-> NoNative,       \* the value eng.workspace[...] returned
     python_value |-> NoPython] \* the value matlab_to_python returned

VARIABLES
    pc,              \* per request: where its coroutine is
    code,            \* runMatlabCode's argument
    variable_name,   \* getVariable's argument
    temp_file_path,  \* main.py:103/109
    fs,              \* the temporary directory: name -> entry
    hist,            \* per request: history of the call in progress
    returned         \* the call that returned in the last step, if one did:
                     \* its response and history

vars == <<pc, code, variable_name, temp_file_path, fs, hist, returned>>

NoCode == ""

NothingReturned ==
    [req |-> 0, tool |-> "none", variable_name |-> NoName, response |-> [status |-> "none"],
     fileLeft |-> FALSE, hist |-> EmptyHist]

Init ==
    /\ pc = [r \in Reqs |-> "idle"]
    /\ code = [r \in Reqs |-> NoCode]
    /\ variable_name = [r \in Reqs |-> NoName]
    /\ temp_file_path = [r \in Reqs |-> None]
    /\ fs = [n \in FileNames |-> NoFile]
    /\ hist = [r \in Reqs |-> EmptyHist]
    /\ returned = NothingReturned

\* ------------------------------------------------------------ runMatlabCode
\* The environment can fail each temporary-file operation of main.py:107-109
\* (NamedTemporaryFile, tmp.write, the close at the end of the with block);
\* io names the operation it fails, "none" when it fails none.

\* main.py:108  what tmp.write(code) raises: the codec's error when the text
\* cannot be encoded, an OSError when the environment fails the write.
WriteFault(c, io) ==
    IF ~Utf8Encodable(c) THEN "UnicodeEncodeError"
    ELSE IF io = "write" THEN "OSError"
    ELSE "none"

\* A name generator that does not look at what the directory already holds.
FreeNamesIgnoringExisting == FileNames

FreeNames == {n \in FileNames : fs[n] = NoFile}

\* runMatlabCode returns resp to its caller: the finally block of
\* main.py:149-156 runs on the path and the directory as they are at that
\* point, and the request slot is free again.
Disown(files, r) ==
    [n \in FileNames |-> IF files[n].owner = r THEN LeftOver ELSE files[n]]

\* A return whose cleanup failure replaces the response already decided.
ReturnRunCleanupEscalates(r, path, files, h, resp, removeRaises) ==
    LET after == Cleanup(path, files, removeRaises)
        failed == path # None /\ files[path] # NoFile /\ removeRaises
    IN
    /\ fs' = Disown(after, r)
    /\ returned' =
        [req |-> r, tool |-> "runMatlabCode", variable_name |-> NoName,
         response |-> IF failed THEN RunOuterHandler("OSError") ELSE resp,
         fileLeft |-> (h.created # None /\ after[h.created] # NoFile),
         hist |-> [h EXCEPT !.removeFailed = failed]]
    /\ pc' = [pc EXCEPT ![r] = "idle"]
    /\ code' = [code EXCEPT ![r] = NoCode]
    /\ temp_file_path' = [temp_file_path EXCEPT ![r] = None]
    /\ hist' = [hist EXCEPT ![r] = EmptyHist]
    /\ UNCHANGED variable_name

ReturnRun(r, path, files, h, resp, removeRaises) ==
    LET after == Cleanup(path, files, removeRaises) IN
    /\ fs' = Disown(after, r)
    /\ returned' =
        [req |-> r, tool |-> "runMatlabCode", variable_name |-> NoName,
         response |-> resp,
         fileLeft |-> (h.created # None /\ after[h.created] # NoFile),
         hist |-> [h EXCEPT !.removeFailed =
                        path # None /\ files[path] # NoFile /\ removeRaises]]
    /\ pc' = [pc EXCEPT ![r] = "idle"]
    /\ code' = [code EXCEPT ![r] = NoCode]
    /\ temp_file_path' = [temp_file_path EXCEPT ![r] = None]
    /\ hist' = [hist EXCEPT ![r] = EmptyHist]
    /\ UNCHANGED variable_name

\* main.py:97-112 with NamedTemporaryFile failing: nothing is created,
\* temp_file_path stays None, the IOError handler answers.
RunCodeCreateFails(r) ==
    /\ pc[r] = "idle"
    /\ \E c \in Codes :
        /\ LET exc == IF FreeNames = {} THEN "FileExistsError" ELSE "OSError" IN
            ReturnRun(r, None, fs, [EmptyHist EXCEPT !.fileFault = exc],
                      RunOuterHandler(exc), FALSE)

\* main.py:97-112 with tmp.write(code) raising: the file exists (delete=False),
\* line 109 has not run, so temp_file_path is still None in the finally block.
RunCodeWriteFails(r) ==
    /\ pc[r] = "idle"
    /\ \E c \in Codes, n \in FreeNames :
        ReturnRun(r, None, [fs EXCEPT ![n] = [owner |-> r, content |-> ""]],
                  [EmptyHist EXCEPT !.created = n, !.fileFault = WriteFault(c, "write")],
                  RunOuterHandler(WriteFault(c, "write")), FALSE)

\* main.py:97-112 with the close at the end of the with block raising:
\* line 109 has run, so the finally block knows the path.
RunCodeCloseFails(r) ==
    /\ pc[r] = "idle"
    /\ \E c \in Codes, n \in FreeNames, rm \in BOOLEAN :
        /\ WriteFault(c, "close") = "none"
        /\ ReturnRun(r, n, [fs EXCEPT ![n] = [owner |-> r, content |-> ""]],
                     [EmptyHist EXCEPT !.created = n, !.fileFault = "OSError"],
                     RunOuterHandler("OSError"), rm)

\* main.py:97-112 without a fault: the script is written and closed, and
\* eng.run(temp_file_path, nargout=0) is handed to a worker thread.
RunCodeStart(r) ==
    /\ pc[r] = "idle"
    /\ \E c \in Codes, n \in FreeNames :
        /\ WriteFault(c, "none") = "none"
        /\ code' = [code EXCEPT ![r] = c]
        /\ temp_file_path' = [temp_file_path EXCEPT ![r] = n]
        /\ fs' = [fs EXCEPT ![n] = [owner |-> r, content |-> c]]
        /\ hist' = [hist EXCEPT ![r] =
                        [@ EXCEPT !.created = n, !.runCalls = @ + 1, !.runArg = n]]
    /\ pc' = [pc EXCEPT ![r] = "file_run"]
    /\ returned' = NothingReturned
    /\ UNCHANGED variable_name

\* A file tier that, having succeeded, still evaluates the code in capture
\* mode to get at its output.
EngRunReturnsThenEvalc(r) ==
    /\ pc[r] = "file_run"
    /\ hist' = [hist EXCEPT ![r] =
                    [@ EXCEPT !.fileFault = "returned", !.evalcCalls = @ + 1]]
    /\ pc' = [pc EXCEPT ![r] = "evalc"]
    /\ returned' = NothingReturned
    /\ UNCHANGED <<code, variable_name, temp_file_path, fs>>

\* main.py:112-114  eng.run returned: the fixed message, then the finally block.
EngRunReturns(r) ==
    /\ pc[r] = "file_run"
    /\ \E rm \in BOOLEAN :
        ReturnRun(r, temp_file_path[r], fs,
                  [hist[r] EXCEPT !.fileFault = "returned"],
                  RunSuccessViaFile(temp_file_path[r]), rm)

\* A fallback that removes the script before it evaluates the code.
EngRunFallsBackAfterCleanup(r) ==
    /\ pc[r] = "file_run"
    /\ \E exc \in SessionFaults :
        /\ FallsBack(exc)
        /\ hist' = [hist EXCEPT ![r] =
                        [@ EXCEPT !.fileFault = exc, !.evalcCalls = @ + 1]]
    /\ fs' = Cleanup(temp_file_path[r], fs, FALSE)
    /\ pc' = [pc EXCEPT ![r] = "evalc"]
    /\ returned' = NothingReturned
    /\ UNCHANGED <<code, variable_name, temp_file_path>>

\* main.py:116-122  eng.run raised the class that selects the fallback:
\* eng.evalc(code) is handed to a worker thread.
EngRunFallsBack(r) ==
    /\ pc[r] = "file_run"
    /\ \E exc \in SessionFaults :
        /\ FallsBack(exc)
        /\ hist' = [hist EXCEPT ![r] =
                        [@ EXCEPT !.fileFault = exc, !.evalcCalls = @ + 1]]
    /\ pc' = [pc EXCEPT ![r] = "evalc"]
    /\ returned' = NothingReturned
    /\ UNCHANGED <<code, variable_name, temp_file_path, fs>>

\* main.py:140-156  eng.run raised any other class: the outer handlers
\* answer, then the finally block.
EngRunRaises(r) ==
    /\ pc[r] = "file_run"
    /\ \E exc \in SessionFaults, rm \in BOOLEAN :
        /\ ~FallsBack(exc)
        /\ ReturnRun(r, temp_file_path[r], fs,
                     [hist[r] EXCEPT !.fileFault = exc], RunOuterHandler(exc), rm)

\* main.py:122-124  eng.evalc returned its transcript.
EvalcReturns(r) ==
    /\ pc[r] = "evalc"
    /\ \E t \in Transcripts, rm \in BOOLEAN :
        ReturnRun(r, temp_file_path[r], fs,
                  [hist[r] EXCEPT !.evalcResult = "returned", !.transcript = t],
                  RunSuccessEvalc(t), rm)

\* A fallback that submits the code to eng.evalc again when eng.evalc raised.
EvalcRaisesAndRetries(r) ==
    /\ pc[r] = "evalc"
    /\ \E exc \in SessionFaults :
        hist' = [hist EXCEPT ![r] =
                    [@ EXCEPT !.evalcResult = exc, !.evalcCalls = @ + 1]]
    /\ returned' = NothingReturned
    /\ UNCHANGED <<pc, code, variable_name, temp_file_path, fs>>

\* A fallback that, when eng.evalc raises, waits for something that never
\* comes instead of answering.
EvalcRaisesAndBlocks(r) ==
    /\ pc[r] = "evalc"
    /\ \E exc \in SessionFaults :
        hist' = [hist EXCEPT ![r] = [@ EXCEPT !.evalcResult = exc]]
    /\ pc' = [pc EXCEPT ![r] = "waiting"]
    /\ returned' = NothingReturned
    /\ UNCHANGED <<code, variable_name, temp_file_path, fs>>

\* main.py:125-138  eng.evalc raised.
EvalcRaises(r) ==
    /\ pc[r] = "evalc"
    /\ \E exc \in SessionFaults, rm \in BOOLEAN :
        ReturnRun(r, temp_file_path[r], fs,
                  [hist[r] EXCEPT !.evalcResult = exc], EvalcHandler(exc), rm)

\* -------------------------------------------------------------- getVariable
\* getVariable returns resp to its caller; the request slot is free again.
ReturnGet(r, n, h, resp) ==
    /\ returned' =
        [req |-> r, tool |-> "getVariable", variable_name |-> n, response |-> resp,
         fileLeft |-> FALSE, hist |-> h]
    /\ pc' = [pc EXCEPT ![r] = "idle"]
    /\ variable_name' = [variable_name EXCEPT ![r] = NoName]
    /\ hist' = [hist EXCEPT ![r] = EmptyHist]
    /\ UNCHANGED <<code, temp_file_path, fs>>

\* A validation that is only reached once no request is inside a session call.
GetVariableInvalidBehindSessionLock(r) ==
    /\ pc[r] = "idle"
    /\ \A q \in Reqs : pc[q] = "idle"
    /\ \E n \in NameInputs :
        /\ InvalidName(n)
        /\ ReturnGet(r, n, EmptyHist, InvalidNameResponse)

\* main.py:180-187  the name fails validation: answered at once.
GetVariableInvalid(r) ==
    /\ pc[r] = "idle"
    /\ \E n \in NameInputs :
        /\ InvalidName(n)
        /\ ReturnGet(r, n, EmptyHist, InvalidNameResponse)

\* main.py:180-197  the name is valid: get_var_from_matlab_sync is handed to
\* a worker thread, which starts with the "in eng.workspace" check.
GetVariableStart(r) ==
    /\ pc[r] = "idle"
    /\ \E n \in NameInputs :
        /\ ~InvalidName(n)
        /\ variable_name' = [variable_name EXCEPT ![r] = n]
    /\ hist' = [hist EXCEPT ![r] = [@ EXCEPT !.containsCalls = @ + 1]]
    /\ pc' = [pc EXCEPT ![r] = "ws_contains"]
    /\ returned' = NothingReturned
    /\ UNCHANGED <<code, temp_file_path, fs>>

\* main.py:193-195  the workspace holds the name: the thread goes on to
\* read eng.workspace[variable_name].
ContainsPresent(r) ==
    /\ pc[r] = "ws_contains"
    /\ hist' = [hist EXCEPT ![r] =
                    [@ EXCEPT !.containsResult = "present", !.getCalls = @ + 1]]
    /\ pc' = [pc EXCEPT ![r] = "ws_get"]
    /\ returned' = NothingReturned
    /\ UNCHANGED <<code, variable_name, temp_file_path, fs>>

\* A thread function that reads eng.workspace[variable_name] whatever the
\* check said.
ContainsAbsentReadsAnyway(r) ==
    /\ pc[r] = "ws_contains"
    /\ hist' = [hist EXCEPT ![r] =
                    [@ EXCEPT !.containsResult = "absent", !.getCalls = @ + 1]]
    /\ pc' = [pc EXCEPT ![r] = "ws_get"]
    /\ returned' = NothingReturned
    /\ UNCHANGED <<code, variable_name, temp_file_path, fs>>

\* main.py:193-194, 212-214  the workspace does not hold the name: the thread
\* raises KeyError, which the await re-raises in the coroutine.
ContainsAbsent(r) ==
    /\ pc[r] = "ws_contains"
    /\ ReturnGet(r, variable_name[r], [hist[r] EXCEPT !.containsResult = "absent"],
                 GetVarHandler("KeyError"))

\* A thread function that repeats the check when the session fails on it.
ContainsRaisesAndRetries(r) ==
    /\ pc[r] = "ws_contains"
    /\ \E exc \in WorkspaceFaults :
        hist' = [hist EXCEPT ![r] =
                    [@ EXCEPT !.containsResult = exc, !.containsCalls = @ + 1]]
    /\ returned' = NothingReturned
    /\ UNCHANGED <<pc, code, variable_name, temp_file_path, fs>>

\* main.py:193, 215-220  the check itself raises.
ContainsRaises(r) ==
    /\ pc[r] = "ws_contains"
    /\ \E exc \in WorkspaceFaults :
        ReturnGet(r, variable_name[r], [hist[r] EXCEPT !.containsResult = exc],
                  GetVarHandler(exc))

\* main.py:195, 215-220  the read raises.
WorkspaceGetRaises(r) ==
    /\ pc[r] = "ws_get"
    /\ \E exc \in WorkspaceFaults :
        ReturnGet(r, variable_name[r], [hist[r] EXCEPT !.getResult = exc],
                  GetVarHandler(exc))

\* main.py:197-198, 218-220  the read returns a value on which
\* matlab_to_python raises.
MarshalRaises(r) ==
    /\ pc[r] = "ws_get"
    /\ \E data \in NativeValues :
        \E exc \in MarshalOutcomes(data) \ {"none"} :
            ReturnGet(r, variable_name[r],
                      [hist[r] EXCEPT !.getResult = "returned", !.native = data,
                                      !.marshalCalls = @ + 1, !.marshalFault = exc],
                      GetVarHandler(exc))

\* main.py:197-210, 218-220  the read returns a value, matlab_to_python
\* converts it, json.dumps is tried on the result.
MarshalAndCheck(r) ==
    /\ pc[r] = "ws_get"
    /\ \E data \in NativeValues, env \in EncoderFaults :
        /\ "none" \in MarshalOutcomes(data)
        /\ LET python_value == matlab_to_python(data)
               exc == DumpsFault(python_value, env)
               h == [hist[r] EXCEPT !.getResult = "returned", !.native = data,
                                    !.python_value = python_value,
                                    !.marshalCalls = @ + 1,
                                    !.dumpsCalls = @ + 1, !.dumpsFault = exc]
           IN  ReturnGet(r, variable_name[r], h,
                         IF exc = "none" THEN GetSuccess(variable_name[r], python_value)
                         ELSE IF CaughtAsUnserializable(exc)
                         THEN UnserializableResponse(variable_name[r], data)
                         ELSE GetVarHandler(exc))

Next ==
    \E r \in Reqs :
        \/ RunCodeCreateFails(r)
        \/ RunCodeWriteFails(r)
        \/ RunCodeCloseFails(r)
        \/ RunCodeStart(r)
        \/ EngRunReturns(r)
        \/ EngRunFallsBack(r)
        \/ EngRunRaises(r)
        \/ EvalcReturns(r)
        \/ EvalcRaises(r)
        \/ GetVariableInvalid(r)
        \/ GetVariableStart(r)
        \/ ContainsPresent(r)
        \/ ContainsAbsent(r)
        \/ ContainsRaises(r)
        \/ WorkspaceGetRaises(r)
        \/ MarshalRaises(r)
        \/ MarshalAndCheck(r)

Spec == Init /\ [][Next]_vars

\* ------------------------------------------------------------- properties
\* The session answers every call made into it: a request that is inside
\* eng.run or eng.evalc (main.py:112, 122) is eventually resumed, with the
\* call's result or with the exception it raised.  Nothing is assumed about
\* when, or whether, new requests arrive.
SessionCallsEnd ==
    \A r \in Reqs :
        /\ WF_vars(EngRunReturns(r) \/ EngRunFallsBack(r) \/ EngRunRaises(r))
        /\ WF_vars(EvalcReturns(r) \/ EvalcRaises(r))

FairSpec == Spec /\ SessionCallsEnd

RunReturned == returned.tool = "runMatlabCode"
GetReturned == returned.tool = "getVariable"

\* The file tier failed with something other than the execution-class error:
\* a fault of the temporary-file operations or of the eng.run call.
FileTierNonExecutionFault ==
    /\ RunReturned
    /\ returned.hist.fileFault \notin {"none", "returned", "MatlabExecutionError"}

FallbackSucceeded ==
    /\ RunReturned
    /\ returned.hist.fileFault = "MatlabExecutionError"
    /\ returned.hist.evalcResult = "returned"

\* C1 (as stated): when eng.run raises MatlabExecutionError and eng.evalc
\* returns, the response is success with the transcript eng.evalc returned as
\* output, and the file the call created does not exist once it has returned.
C1_FallbackSuccessRemovesFile ==
    FallbackSucceeded =>
        /\ returned.response = [status |-> "success", output |-> returned.hist.transcript]
        /\ ~returned.fileLeft

\* C1 (amended): the same, the file being gone provided os.remove did not
\* raise in the finally block.
C1_FallbackSuccess ==
    FallbackSucceeded =>
        /\ returned.response = [status |-> "success", output |-> returned.hist.transcript]
        /\ (~returned.hist.removeFailed => ~returned.fileLeft)

C1_Witness ==
    /\ FallbackSucceeded
    /\ returned.hist.transcript = "ans = 2"
    /\ ~returned.hist.removeFailed
    /\ ~returned.fileLeft

\* C2: when the file tier raises a non-execution fault, eng.evalc is never
\* called in that call and the response has status error.
C2_NoFallbackOnNonExecutionFault ==
    FileTierNonExecutionFault =>
        /\ returned.hist.evalcCalls = 0
        /\ returned.response.status = "error"

C2_Witness ==
    /\ FileTierNonExecutionFault
    /\ returned.hist.fileFault = "EngineError"
    /\ returned.hist.runCalls = 1

\* C3: on every exit path of runMatlabCode, os.remove not raising, the file
\* the call created does not exist once the call has returned.
C3_FileDeletedOnEveryPath ==
    (RunReturned /\ ~returned.hist.removeFailed) => ~returned.fileLeft

\* C4: within one call eng.run is issued at most once and eng.evalc at most
\* once, eng.evalc only after eng.run of the same call has raised
\* MatlabExecutionError, no session call follows a failure of eng.evalc, and
\* the only moves are file_run -> done and file_run -> evalc -> done.
C4_Counts(h) ==
    /\ h.runCalls <= 1
    /\ h.evalcCalls <= 1
    /\ h.evalcCalls = 1 => (h.runCalls = 1 /\ h.fileFault = "MatlabExecutionError")

C4_State ==
    /\ \A r \in Reqs : C4_Counts(hist[r])
    /\ RunReturned => C4_Counts(returned.hist)

C4_Step ==
    \A r \in Reqs :
        /\ pc'[r] = "file_run" => pc[r] \in {"idle", "file_run"}
        /\ pc'[r] = "evalc" => pc[r] \in {"file_run", "evalc"}
        /\ pc[r] = "evalc" /\ pc'[r] = "evalc" => hist'[r] = hist[r]
        /\ pc[r] = "file_run" /\ pc'[r] = "file_run" => hist'[r] = hist[r]
        /\ pc[r] = "evalc" /\ pc'[r] # "evalc" =>
                /\ pc'[r] = "idle"
                /\ returned'.req = r
                /\ returned'.hist.runCalls + returned'.hist.evalcCalls = 2

C4_NoRetry == [][C4_State' /\ C4_Step]_vars

C4_Witness ==
    /\ RunReturned
    /\ returned.hist.evalcResult = "MatlabExecutionError"
    /\ returned.hist.runCalls = 1
    /\ returned.hist.evalcCalls = 1

\* C5: whatever the input and whatever the session, the temporary-file
\* operations or matlab_to_python raise, each tool returns a response whose
\* status is "success" or "error", an error response carrying error_type and
\* message; no exception leaves the tool.
C5_UniformResponse ==
    returned.tool # "none" =>
        /\ returned.response.status \in {"success", "error"}
        /\ returned.response.status = "error" =>
                {"error_type", "message"} \subseteq DOMAIN returned.response

C5_Witness ==
    /\ RunReturned
    /\ returned.hist.fileFault = "UnicodeEncodeError"
    /\ returned.hist.runCalls = 0
    /\ returned.response.status = "error"

\* C6: when the file tier fails with a non-execution fault, the error
\* response names the file tier in its stage field.
C6_StageNamesFileTier ==
    FileTierNonExecutionFault =>
        /\ "stage" \in DOMAIN returned.response
        /\ returned.response.stage # "evalc_fallback"

\* C7: getVariable called with an empty or non-string name answers error with
\* error_type ValueError and makes no call into the session.
C7_InvalidNameNoSessionCall ==
    (GetReturned /\ (returned.variable_name.text = ""
                     \/ returned.variable_name.type # "str")) =>
        /\ returned.response.status = "error"
        /\ returned.response.error_type = "ValueError"
        /\ returned.hist.containsCalls = 0
        /\ returned.hist.getCalls = 0

C7_Witness ==
    /\ GetReturned
    /\ returned.variable_name = [type |-> "int", text |-> "5"]
    /\ returned.response.status = "error"

\* C8: getVariable for a name the workspace check reports absent answers
\* error with error_type KeyError; eng.workspace[...] is never read and
\* matlab_to_python never applied in that call.
C8_AbsentNameNotFetched ==
    (GetReturned /\ returned.hist.containsResult = "absent") =>
        /\ returned.response.status = "error"
        /\ returned.response.error_type = "KeyError"
        /\ returned.hist.getCalls = 0
        /\ returned.hist.marshalCalls = 0

C8_Witness ==
    /\ GetReturned
    /\ returned.hist.containsResult = "absent"
    /\ returned.hist.containsCalls = 1

\* C9: getVariable answers success only after json.dumps accepted the
\* converted value in the same call; whenever json.dumps fails, with whatever
\* exception, the response is the unserializable error (error_type TypeError,
\* "could not be JSON serialized") and has no value field.
C9_SerializationChecked ==
    GetReturned =>
        /\ returned.response.status = "success" =>
                (returned.hist.dumpsCalls = 1 /\ returned.hist.dumpsFault = "none")
        /\ returned.hist.dumpsFault # "none" =>
                /\ returned.response.status = "error"
                /\ returned.response.error_type = "TypeError"
                /\ "value" \notin DOMAIN returned.response

\* C10: when eng.run returns without raising, the response is success with the
\* fixed "executed via temporary file" message, which is no transcript, and
\* eng.evalc is never called in that call.
C10_FileSuccessFixedMessage ==
    (RunReturned /\ returned.hist.fileFault = "returned") =>
        /\ returned.response =
                [status |-> "success",
                 output |-> "Code executed successfully via temporary file ("
                            \o returned.hist.runArg \o ")."]
        /\ returned.response.output \notin Transcripts
        /\ returned.hist.evalcCalls = 0
        /\ returned.hist.evalcResult = "none"

C10_Witness ==
    /\ RunReturned
    /\ returned.hist.fileFault = "returned"
    /\ returned.response.status = "success"


\* C11: when runMatlabCode has fallen back to eng.evalc and eng.evalc raises,
\* the response is an error whose stage names the capture tier
\* ("evalc_fallback"): error_type MatlabExecutionError for that class, the
\* class name for any other, the message carrying the exception's text; it is
\* never a success.
CaptureTierFailed ==
    /\ RunReturned
    /\ returned.hist.evalcResult \notin {"none", "returned"}

C11_CaptureFailureStaged ==
    CaptureTierFailed =>
        /\ returned.response.status = "error"
        /\ "stage" \in DOMAIN returned.response
        /\ returned.response.stage = "evalc_fallback"
        /\ returned.response.error_type = returned.hist.evalcResult
        /\ returned.response.message =
                (IF returned.hist.evalcResult = "MatlabExecutionError"
                 THEN "MATLAB execution failed (tried temp file then evalc): "
                 ELSE "Unexpected error during eng.evalc() fallback: ")
                \o Str(returned.hist.evalcResult)

C11_Witness ==
    /\ CaptureTierFailed
    /\ returned.hist.evalcResult = "EngineError"
    /\ returned.response.stage = "evalc_fallback"

\* C12: a failure of os.remove in the finally block never changes the
\* response: whatever the execution tiers decided (success by file, success
\* by capture, capture-tier failure, file-tier failure) is what the call
\* returns, and the cleanup raises nothing.
DecidedResponse(h) ==
    IF h.evalcResult = "returned" THEN RunSuccessEvalc(h.transcript)
    ELSE IF h.evalcResult # "none" THEN EvalcHandler(h.evalcResult)
    ELSE IF h.fileFault = "returned" THEN RunSuccessViaFile(h.runArg)
    ELSE RunOuterHandler(h.fileFault)

C12_CleanupFailureKeepsResponse ==
    RunReturned =>
        /\ returned.response = DecidedResponse(returned.hist)
        /\ returned.response.status \in {"success", "error"}

C12_Witness ==
    /\ RunReturned
    /\ returned.hist.removeFailed
    /\ returned.hist.fileFault = "returned"
    /\ returned.response.status = "success"


\* C13: concurrently handled runMatlabCode calls never share a scratch
\* script: the live calls hold pairwise distinct paths, the file at a call's
\* path holds that call's code, the path handed to eng.run is the call's own,
\* no step changes the content of an existing script, and a script leaves the
\* directory only in the step in which the call that created it returns.
InSessionCallRun(r) == pc[r] \in {"file_run", "evalc"}

C13_State ==
    /\ \A r1, r2 \in Reqs :
        (r1 # r2 /\ InSessionCallRun(r1) /\ InSessionCallRun(r2))
            => temp_file_path[r1] # temp_file_path[r2]
    /\ \A r \in Reqs :
        InSessionCallRun(r) =>
            /\ temp_file_path[r] \in FileNames
            /\ fs[temp_file_path[r]].owner = r
            /\ fs[temp_file_path[r]].content = code[r]
            /\ hist[r].runArg = temp_file_path[r]
            /\ \A n \in FileNames : fs[n].owner = r => n = temp_file_path[r]

C13_Step ==
    \A n \in FileNames :
        /\ (fs[n] # NoFile /\ fs'[n] = NoFile) =>
                /\ fs[n].owner \in Reqs
                /\ n = temp_file_path[fs[n].owner]
                /\ returned'.req = fs[n].owner
                /\ returned'.tool = "runMatlabCode"
        /\ (fs[n] # NoFile /\ fs'[n] # NoFile /\ fs'[n] # fs[n]) =>
                /\ fs'[n] = LeftOver
                /\ returned'.req = fs[n].owner

C13_ScriptsIsolated == [][C13_State' /\ C13_Step]_vars

C13_Witness ==
    \E r1, r2 \in Reqs :
        /\ r1 # r2
        /\ pc[r1] = "file_run"
        /\ pc[r2] = "evalc"
        /\ temp_file_path[r1] # temp_file_path[r2]
        /\ code[r1] # code[r2]


\* C14: while a request is inside a session call (eng.run, eng.evalc, the
\* workspace check or the workspace read), any idle request slot can accept a
\* getVariable call with an invalid name and return its response in that one
\* step, the blocked request staying where it is.
InSessionCall(r) == pc[r] \in {"file_run", "evalc", "ws_contains", "ws_get"}

C14_ValidationNotStalled ==
    \A r1, r2 \in Reqs :
        (r1 # r2 /\ InSessionCall(r1) /\ pc[r2] = "idle") =>
            ENABLED (/\ GetVariableInvalid(r2)
                     /\ pc'[r1] = pc[r1]
                     /\ returned'.req = r2
                     /\ returned'.response = InvalidNameResponse)

C14_Witness ==
    /\ GetReturned
    /\ returned.response = InvalidNameResponse
    /\ returned.variable_name.text = ""
    /\ \E r1 \in Reqs : r1 # returned.req /\ pc[r1] = "evalc"


\* C15: an EngineError raised by the workspace check or by the workspace
\* read of getVariable is answered with status=error, error_type EngineError,
\* and is the request's last session call: the failing call is not repeated,
\* a failed check is not followed by a read, and no request still in flight
\* has a session failure behind it.
EngineErrorResponse ==
    [status |-> "error", error_type |-> "EngineError",
     message |-> "MATLAB Engine error: " \o Str("EngineError")]

C15_EngineErrorNotRetried ==
    /\ (GetReturned /\ returned.hist.containsResult = "EngineError") =>
            /\ returned.response = EngineErrorResponse
            /\ returned.hist.containsCalls = 1
            /\ returned.hist.getCalls = 0
    /\ (GetReturned /\ returned.hist.getResult = "EngineError") =>
            /\ returned.response = EngineErrorResponse
            /\ returned.hist.containsCalls = 1
            /\ returned.hist.getCalls = 1
    /\ \A r \in Reqs :
            /\ hist[r].containsResult # "EngineError"
            /\ hist[r].getResult # "EngineError"
            /\ hist[r].containsCalls <= 1
            /\ hist[r].getCalls <= 1

C15_Witness ==
    /\ GetReturned
    /\ returned.hist.getResult = "EngineError"
    /\ returned.response.error_type = "EngineError"
    /\ returned.hist.getCalls = 1


\* The value the last getVariable call read from the workspace, if it read one.
Fetched == GetReturned /\ returned.hist.native # NoNative

IsArray(data) == "rows" \in DOMAIN data
IsNumericArray(data) == IsArray(data) /\ data.cls # "matlab.logical"
IsUnsupported(data) ==
    /\ ~IsArray(data)
    /\ data.cls \notin PrimitiveClasses \union {"matlab.char"}

\* C16: on every value that is no primitive, numeric array, boolean array or
\* text, matlab_to_python returns without raising, and what it returns is a
\* string: str(data), or the sentinel naming the type when str(data) raises.
C16_MarshalTotalOnUnsupported ==
    (Fetched /\ IsUnsupported(returned.hist.native)) =>
        /\ returned.hist.marshalFault = "none"
        /\ returned.hist.python_value.type = "str"
        /\ returned.hist.python_value.v =
                IF StrRaises(returned.hist.native)
                THEN Sentinel(returned.hist.native)
                ELSE StrOf(returned.hist.native)

\* C17: on every numeric array of m > 1 rows and n > 1 columns,
\* matlab_to_python returns a list of m lists of length n whose element (i, j)
\* is the array's element (i, j).
C17_MatrixToNestedList ==
    (/\ Fetched
     /\ IsNumericArray(returned.hist.native)
     /\ NumRows(returned.hist.native) > 1
     /\ NumCols(returned.hist.native) > 1) =>
        LET a == returned.hist.native
            py == returned.hist.python_value
        IN  /\ returned.hist.marshalFault = "none"
            /\ py.type = "list"
            /\ Len(py.v) = NumRows(a)
            /\ \A i \in 1..NumRows(a) :
                    /\ Len(py.v[i]) = NumCols(a)
                    /\ \A j \in 1..NumCols(a) : py.v[i][j] = a.rows[i][j]

\* C18: on every numeric or boolean array with a single element,
\* matlab_to_python returns that element as a bare number or boolean of the
\* element's own kind, never a list and never a string.
C18_SingleElementUnwrapped ==
    (Fetched /\ IsArray(returned.hist.native) /\ ZeroDim(returned.hist.native)) =>
        LET a == returned.hist.native
            py == returned.hist.python_value
        IN  /\ returned.hist.marshalFault = "none"
            /\ py.type \in {"float", "int", "complex", "bool"}
            /\ a.is_complex <=> py.type = "complex"
            /\ a.cls = "matlab.logical" <=> py.type = "bool"
            /\ py.v = a.rows[1][1]


\* C19: within one runMatlabCode call the script is complete on disk when
\* eng.run is issued and stays there, unchanged, as long as the call is inside
\* eng.run or inside the eng.evalc fallback; it is removed only in the step in
\* which the call returns its response.
C19_State ==
    \A r \in Reqs :
        pc[r] \in {"file_run", "evalc"} =>
            /\ hist[r].created = temp_file_path[r]
            /\ fs[hist[r].created] # NoFile
            /\ fs[hist[r].created].content = code[r]

C19_Step ==
    \A r \in Reqs :
        /\ (pc[r] = "idle" /\ pc'[r] = "file_run") =>
                /\ hist'[r].runCalls = 1
                /\ fs'[hist'[r].runArg] = [owner |-> r, content |-> code'[r]]
        /\ (pc[r] = "file_run" /\ pc'[r] = "evalc") =>
                fs'[hist[r].created] = fs[hist[r].created]
        /\ (pc[r] \in {"file_run", "evalc"} /\ fs'[hist[r].created] # fs[hist[r].created]) =>
                /\ pc'[r] = "idle"
                /\ returned'.req = r
                /\ returned'.hist.fileFault # "none"
                /\ returned'.hist.evalcCalls = 1 => returned'.hist.evalcResult # "none"

C19_ScriptOutlivesSessionCalls == [][C19_State' /\ C19_Step]_vars

C19_Witness ==
    \E r \in Reqs :
        /\ pc[r] = "evalc"
        /\ hist[r].fileFault = "MatlabExecutionError"
        /\ fs[temp_file_path[r]] = [owner |-> r, content |-> code[r]]


\* C20: provided every session call ends, every runMatlabCode call that has
\* been started returns: a request inside eng.run or eng.evalc leads to that
\* request being idle again, and a call has issued at most two session calls,
\* one eng.run and one eng.evalc, when it returns.
C20_RunCodeTerminates ==
    /\ \A r \in Reqs : (pc[r] \in {"file_run", "evalc"}) ~> (pc[r] = "idle")
    /\ \A r \in Reqs : [](pc[r] \in {"idle", "file_run", "evalc", "ws_contains", "ws_get"})
    /\ [](\A r \in Reqs : hist[r].runCalls + hist[r].evalcCalls <= 2)
    /\ [](RunReturned => returned.hist.runCalls + returned.hist.evalcCalls <= 2)

C20_Witness ==
    /\ RunReturned
    /\ returned.hist.runCalls = 1
    /\ returned.hist.evalcCalls = 1
    /\ returned.hist.evalcResult = "RuntimeError"
    /\ returned.response.status = "error"

====
